---- MODULE Spec2Model ----
(***************************************************************************)
(* Model of the PermastoreIt client: the SDK (permastoreit_sdk.py) and the *)
(* commands of the CLI (permastoreit_cli.py).                              *)
(*                                                                         *)
(* Python strings that the code inspects (endpoints, URLs, hashes) are     *)
(* sequences of one-character strings, so lstrip/rstrip/split/lower and    *)
(* the substring test are computed, not assumed.                           *)
(***************************************************************************)
EXTENDS Integers, Sequences, FiniteSets, TLC

VARIABLES
    base_url,        \* PermastoreItClient.base_url (trailing '/' stripped)
    timeout,         \* PermastoreItClient.timeout
    fs,              \* local filesystem: the save directory and its files
    call,            \* the SDK operation invoked last, with its arguments
    env,             \* what the node / transport / disk did during that call
    outcome,         \* how that SDK operation ended (return or raise)
    helper,          \* how _make_request ended inside that operation
    fs_before,       \* the filesystem when that operation was entered
    sent,            \* the HTTP requests that operation handed to the session
    pc,              \* "call" / "returned" for an SDK call; "loop" / "run" /
                     \* "exited" for a command; "rt_..." for a round trip
    cmd,             \* the command run, with its arguments
    repeat,          \* --repeat of the running command
    i,               \* loop variable of the running command
    results_data,    \* results_data of the running command
    overall_success, \* overall_success of the running command
    output_format,   \* --output-format of the running command
    attempts,        \* per attempt of the running command: what the SDK did
    stdout,          \* records printed on stdout by the running command
    stderr,          \* panels printed on the stderr console
    exit_code,       \* process exit code: -1 while running
    files_to_upload, \* upload-bulk: the files the glob pattern matched
    success_count,   \* upload-bulk: success_count
    fail_count,      \* upload-bulk: fail_count
    node,            \* what the node stores: hash -> content
    local_file       \* the local file a round trip starts from

vars == <<base_url, timeout, fs, call, env, outcome, helper, fs_before, sent,
          pc, cmd, repeat, i,
          results_data, overall_success, output_format, attempts, stdout,
          stderr, exit_code, files_to_upload, success_count, fail_count,
          node, local_file>>

bulkVars == <<files_to_upload, success_count, fail_count>>
nodeVars == <<node, local_file>>
sdkVars == <<call, env, outcome, helper, fs_before, sent>>
cliVars == <<pc, cmd, repeat, i, results_data, overall_success, output_format,
             attempts, stdout, stderr, exit_code>>

-----------------------------------------------------------------------------
(* Bounds of the model. *)

MaxRepeat == 3      \* largest --repeat explored
MaxChunks == 2      \* largest number of chunks in a streamed body
MaxFiles == 3       \* largest number of files a bulk upload finds

-----------------------------------------------------------------------------
(* Python string operations. *)

Max(a, b) == IF a > b THEN a ELSE b

Str_slash     == <<"/">>
Str_download  == <<"d","o","w","n","l","o","a","d">>
Str_file_info == <<"f","i","l","e","-","i","n","f","o">>
Str_zk_proof  == <<"z","k","-","p","r","o","o","f">>
Str_zkp       == <<"z","k","p">>
Str_status    == <<"s","t","a","t","u","s">>
Str_health    == <<"h","e","a","l","t","h">>
Str_upload    == <<"u","p","l","o","a","d">>
Str_files     == <<"f","i","l","e","s">>
Str_search    == <<"s","e","a","r","c","h">>

\* str.lower() on the characters the model uses
LowerChar(c) ==
    CASE c = "Z" -> "z"
      [] c = "K" -> "k"
      [] c = "P" -> "p"
      [] c = "A" -> "a"
      [] OTHER   -> c

Lower(s) == [k \in 1..Len(s) |-> LowerChar(s[k])]

RECURSIVE LStrip(_, _)
LStrip(s, ch) ==
    IF s # <<>> /\ Head(s) = ch THEN LStrip(Tail(s), ch) ELSE s

RECURSIVE RStrip(_, _)
RStrip(s, ch) ==
    IF s # <<>> /\ s[Len(s)] = ch THEN RStrip(SubSeq(s, 1, Len(s) - 1), ch) ELSE s

\* s.split(ch): always at least one part, empty parts are kept
RECURSIVE SplitFrom(_, _, _)
SplitFrom(s, ch, cur) ==
    IF s = <<>> THEN <<cur>>
    ELSE IF Head(s) = ch THEN <<cur>> \o SplitFrom(Tail(s), ch, <<>>)
    ELSE SplitFrom(Tail(s), ch, Append(cur, Head(s)))

Split(s, ch) == SplitFrom(s, ch, <<>>)

\* the Python test  sub in s
Contains(s, sub) ==
    \E k \in 0..(Len(s) - Len(sub)) : SubSeq(s, k + 1, k + Len(sub)) = sub

-----------------------------------------------------------------------------
(* What the node and the transport can answer. *)

NoBody == [k |-> "text", len |-> 0, detail |-> "none", status |-> "none"]

\* response bodies: raw text of some length (0 = empty), a JSON object with or
\* without a "detail" / "status" field, a JSON array of objects, a JSON
\* scalar (a number or a non-empty string)
Bodies ==
    { [k |-> "text", len |-> n, detail |-> "none", status |-> "none"] : n \in {0, 150, 250} }
    \cup { [k |-> "obj", len |-> 20, detail |-> d, status |-> s] :
             d \in {"none", "msg"}, s \in {"none", "healthy", "degraded"} }
    \cup { [k |-> "list", len |-> 2, detail |-> "none", status |-> "none"] }
    \cup { [k |-> "nonobj", len |-> 2, detail |-> "none", status |-> "none"] }

Statuses == {101, 200, 201, 304, 400, 404, 500, 501}

TransportErrors == {"Timeout", "ConnectionError", "RequestException"}

Responses ==
    { [t |-> "response", status |-> s, body |-> b] : s \in Statuses, b \in Bodies }
    \cup { [t |-> e, status |-> 0, body |-> NoBody] : e \in TransportErrors }

\* requests.Response.ok: raise_for_status() raises for 400..599 only
Ok(status) == ~(400 <= status /\ status < 600)

\* response.json(): raises requests.exceptions.JSONDecodeError on a body that
\* is not JSON
JsonDecodes(body) == body.k \in {"obj", "list", "nonobj"}

-----------------------------------------------------------------------------
(* Outcomes of an SDK operation. *)

NoValue == [k |-> "none", len |-> 0, detail |-> "none", status |-> "none"]

Return(v) ==
    [kind |-> "return", exc |-> "none", status_code |-> 0, detail |-> "none",
     resource_id |-> <<>>, url |-> <<>>, value |-> v, path |-> <<>>]

ReturnPath(p) ==
    [kind |-> "return", exc |-> "none", status_code |-> 0, detail |-> "none",
     resource_id |-> <<>>, url |-> <<>>, value |-> NoValue, path |-> p]

\* raise of an exception class exc; cause names what the message reports
Raise(exc, cause) ==
    [kind |-> "raise", exc |-> exc, status_code |-> 0, detail |-> cause,
     resource_id |-> <<>>, url |-> <<>>, value |-> NoValue, path |-> <<>>]

\* APIError.__init__: detail or "Server returned status N"
APIError(status_code, detail) ==
    [kind |-> "raise", exc |-> "APIError", status_code |-> status_code,
     detail |-> IF detail = "none" THEN "Server returned status" ELSE detail,
     resource_id |-> <<>>, url |-> <<>>, value |-> NoValue, path |-> <<>>]

FileNotFoundErrorOnServer(resource_id) ==
    [kind |-> "raise", exc |-> "FileNotFoundErrorOnServer", status_code |-> 404,
     detail |-> "Resource not found on server", resource_id |-> resource_id,
     url |-> <<>>, value |-> NoValue, path |-> <<>>]

ZKPDisabledError ==
    [kind |-> "raise", exc |-> "ZKPDisabledError", status_code |-> 501,
     detail |-> "ZKP is not enabled on the target node", resource_id |-> <<>>,
     url |-> <<>>, value |-> NoValue, path |-> <<>>]

NetworkError(url, cause) ==
    [kind |-> "raise", exc |-> "NetworkError", status_code |-> 0,
     detail |-> cause, resource_id |-> <<>>, url |-> url, value |-> NoValue,
     path |-> <<>>]

\* no call made yet / _make_request not reached
NotStarted == Raise("none", "not started")

\* the exception classes deriving from APIError, APIError included
APIErrorClasses == {"APIError", "FileNotFoundErrorOnServer", "ZKPDisabledError"}

-----------------------------------------------------------------------------
(* PermastoreItClient._make_request *)

Url(base, endpoint) == base \o Str_slash \o LStrip(endpoint, "/")

\* detail of a non-2xx response: data.get("detail"), or the raw-text excerpt
ErrorDetail(body) ==
    IF body.k = "obj" THEN body.detail
    ELSE IF body.len > 0 THEN "raw_text[:200]"
    ELSE "No detail provided"

ResourcePrefixes == {Str_download, Str_file_info, Str_zk_proof}

IsResourceEndpoint(endpoint) ==
    LET path_parts == Split(LStrip(endpoint, "/"), "/")
    IN  Len(path_parts) = 2 /\ path_parts[1] \in ResourcePrefixes

IsZkpEndpoint(endpoint) == Contains(Lower(endpoint), Str_zkp)

\* the exception raised for a response that is not ok
ClassifyError(endpoint, resp) ==
    IF resp.body.k \in {"list", "nonobj"}
    THEN Raise("AttributeError", "data.get")      \* data.get on a non-dict
    ELSE LET detail == ErrorDetail(resp.body)
         IN  IF resp.status = 404
             THEN IF IsResourceEndpoint(endpoint)
                  THEN FileNotFoundErrorOnServer(Split(LStrip(endpoint, "/"), "/")[2])
                  ELSE APIError(404, IF detail = "none" THEN "Resource not found" ELSE detail)
             ELSE IF resp.status = 501 /\ IsZkpEndpoint(endpoint)
                  THEN ZKPDisabledError
                  ELSE APIError(resp.status, detail)

\* result of _make_request: the response handed back, or the exception raised
make_request(base, endpoint, resp) ==
    IF resp.t # "response"
    THEN NetworkError(Url(base, endpoint), resp.t)
    ELSE IF ~Ok(resp.status)
         THEN ClassifyError(endpoint, resp)
         ELSE Return(resp.body)

\* the request _make_request hands to session.request; limit and query are
\* the params, content_type and files the type and the bytes of the multipart
\* file part
Request(base, method, endpoint, tmo, limit, query, stream, content_type, files) ==
    [method |-> method, endpoint |-> endpoint, url |-> Url(base, endpoint),
     timeout |-> tmo, limit |-> limit, query |-> query, stream |-> stream,
     content_type |-> content_type, files |-> files]

-----------------------------------------------------------------------------
(* Arguments of the SDK operations. *)

Hash_ab    == <<"a","b">>
Hash_ZKP   == <<"Z","K","P">>
Hash_slash == <<"a","/","b">>
Hashes     == {Hash_ab, Hash_ZKP, Hash_slash}

Name_n     == <<"n">>
NoName     == <<>>                \* save_filename None (or ""): both falsy
SaveNames  == {NoName, Name_n}

\* limit arguments: None, ints, bools (a bool is an int in Python), a float
\* and a string
NoLimit == [type |-> "none", val |-> 0]
DefaultSearchLimit == 10
Limits ==
    {NoLimit}
    \cup { [type |-> "int", val |-> n] : n \in {-1, 0, 1, 2, DefaultSearchLimit} }
    \cup { [type |-> "bool", val |-> n] : n \in {0, 1} }
    \cup { [type |-> "float", val |-> 1], [type |-> "str", val |-> 1] }

IsInstanceInt(limit) == limit.type \in {"int", "bool"}

\* the limit test off by one: 0 is let through
LimitRejected_OffByOne(limit) == ~IsInstanceInt(limit) \/ limit.val < 0

\* the test  not isinstance(limit, int) or limit < 1
LimitRejected(limit) == ~IsInstanceInt(limit) \/ limit.val < 1

\* content as the sequence of chunks iter_content / the file object yields
Chunk(k) == <<"c", k>>
Body(n) == [k \in 1..n |-> Chunk(k)]

\* the local path given to upload: missing, a directory, or a regular file
\* whose MIME type mimetypes.guess_type resolves or not, readable or not
File(kind, mime, readable, content) ==
    [kind |-> kind, mime |-> mime, readable |-> readable, content |-> content]

NoFile == File("none", "none", FALSE, <<>>)
LocalPaths ==
    { File("missing", "none", FALSE, <<>>), File("dir", "none", TRUE, <<>>) }
    \cup { File("file", m, r, Body(1)) : m \in {"known", "unknown"}, r \in BOOLEAN }

NoQuery == "none"
Queries == {"q"}

Call(op, h, name, limit, query, file) ==
    [op |-> op, file_hash |-> h, save_filename |-> name, limit |-> limit,
     query |-> query, file_path |-> file]

-----------------------------------------------------------------------------
(* The environment of one SDK call: the node's answer and the local disk. *)

NoFault == -1

Env(resp, makedirs_ok, chunks, stream_fail_at, write_fail_at) ==
    [resp |-> resp, makedirs_ok |-> makedirs_ok, chunks |-> chunks,
     stream_fail_at |-> stream_fail_at, write_fail_at |-> write_fail_at]

\* environments of the operations that only make a request
RequestEnvs == { Env(r, TRUE, <<>>, NoFault, NoFault) : r \in Responses }

OkStatuses == { s \in Statuses : Ok(s) }

\* environments of download: an error answer, or a streamed body of n chunks
\* where the stream may break after stream_fail_at chunks and the write of
\* chunk write_fail_at may fail
DownloadEnvs ==
    { Env(r, m, <<>>, NoFault, NoFault) :
        r \in { x \in Responses : x.t # "response" \/ ~Ok(x.status) },
        m \in BOOLEAN }
    \cup UNION { { Env([t |-> "response", status |-> s, body |-> NoBody], m,
                       Body(n), sf, wf) :
                     s \in OkStatuses, m \in BOOLEAN,
                     sf \in {NoFault} \cup 0..n, wf \in {NoFault} \cup 1..n }
                 : n \in 0..MaxChunks }

-----------------------------------------------------------------------------
(* The local filesystem: the save directory and the files in it. *)

NoFiles == [n \in {} |-> 0]

Put(files, name, f) ==
    [n \in (DOMAIN files) \cup {name} |-> IF n = name THEN f ELSE files[n]]

Del(files, name) == [n \in (DOMAIN files) \ {name} |-> files[n]]

OldContent == << <<"old", 0>> >>

\* os.makedirs(save_dir, exist_ok=True)
MakeDirs(fsys, makedirs_ok) ==
    IF fsys.dir_exists THEN fsys
    ELSE IF makedirs_ok
         THEN [dir_exists |-> TRUE, dir_writable |-> TRUE, files |-> NoFiles]
         ELSE fsys

\* a name that os.path.join turns into the directory itself or into a path
\* below a sub-directory that does not exist
IsPlainName(name) == name # <<>> /\ ~Contains(name, Str_slash)

Exists(fsys, name) == fsys.dir_exists /\ name \in DOMAIN fsys.files

\* open(full_save_path, 'wb') succeeds: truncating an existing file needs
\* write permission on the file, creating one needs it on the directory
CanOpenWb(fsys, name) ==
    /\ fsys.dir_exists
    /\ IsPlainName(name)
    /\ IF name \in DOMAIN fsys.files
       THEN fsys.files[name].writable
       ELSE fsys.dir_writable

OpenWb(fsys, name) ==
    [fsys EXCEPT !.files =
        Put(@, name, [content |-> <<>>, writable |-> TRUE])]

Write(fsys, name, data) ==
    [fsys EXCEPT !.files[name].content = @ \o data]

\* the clean-up left out: the file stays
Remove_Skipped(fsys, name) == fsys

\* try: os.remove(full_save_path)  except OSError: pass
Remove(fsys, name) ==
    IF Exists(fsys, name) /\ fsys.dir_writable
    THEN [fsys EXCEPT !.files = Del(@, name)]
    ELSE fsys

-----------------------------------------------------------------------------
(* The public SDK operations.  Each yields the outcome, the requests handed *)
(* to the session and the filesystem afterwards.                            *)

\* return response.json() after _make_request
JsonResult(r) ==
    IF r.kind = "return" /\ ~JsonDecodes(r.value)
    THEN Raise("JSONDecodeError", "response.json")
    ELSE r

Result(out, reqs, fsys, h) ==
    [outcome |-> out, sent |-> reqs, fs |-> fsys, helper |-> h]

\* an operation that ends before it reaches _make_request
Local(out, fsys) == Result(out, <<>>, fsys, NotStarted)

\* an operation that returns response.json() of its one request
Fetch(base, endpoint, req, fsys, e) ==
    LET r == make_request(base, endpoint, e.resp)
    IN  Result(JsonResult(r), <<req>>, fsys, r)

NoParams(base, tmo, endpoint) ==
    Request(base, "GET", endpoint, tmo, NoLimit, NoQuery, FALSE, "none", <<>>)

get_root_message(base, tmo, fsys, e) ==
    Fetch(base, Str_slash, NoParams(base, tmo, Str_slash), fsys, e)

get_status(base, tmo, fsys, e) ==
    Fetch(base, Str_slash \o Str_status,
          NoParams(base, tmo, Str_slash \o Str_status), fsys, e)

get_health(base, tmo, fsys, e) ==
    Fetch(base, Str_slash \o Str_health,
          NoParams(base, tmo, Str_slash \o Str_health), fsys, e)

FileInfoEndpoint(h) == Str_slash \o Str_file_info \o Str_slash \o h
ZkProofEndpoint(h)  == Str_slash \o Str_zk_proof \o Str_slash \o h
DownloadEndpoint(h) == Str_slash \o Str_download \o Str_slash \o h

get_file_info(base, tmo, h, fsys, e) ==
    Fetch(base, FileInfoEndpoint(h), NoParams(base, tmo, FileInfoEndpoint(h)), fsys, e)

get_zk_proof(base, tmo, h, fsys, e) ==
    Fetch(base, ZkProofEndpoint(h), NoParams(base, tmo, ZkProofEndpoint(h)), fsys, e)

list_files(base, tmo, limit, fsys, e) ==
    IF limit.type # "none" /\ LimitRejected(limit)
    THEN Local(Raise("ValueError", "Limit must be a positive integer"), fsys)
    ELSE Fetch(base, Str_slash \o Str_files,
               Request(base, "GET", Str_slash \o Str_files, tmo, limit, NoQuery,
                       FALSE, "none", <<>>), fsys, e)

search(base, tmo, query, limit, fsys, e) ==
    IF LimitRejected(limit)
    THEN Local(Raise("ValueError", "Limit must be a positive integer"), fsys)
    ELSE Fetch(base, Str_slash \o Str_search,
               Request(base, "GET", Str_slash \o Str_search, tmo, limit, query,
                       FALSE, "none", <<>>), fsys, e)

UploadTimeoutFloor == 120

\* the upload timeout without its floor: twice the default
upload_timeout_NoFloor(tmo) == tmo * 2

upload_timeout(tmo) == Max(tmo * 2, UploadTimeoutFloor)

\* lines 177-189: open the file, post it, decode the answer
upload_send(base, tmo, file, fsys, e) ==
    IF ~file.readable
    THEN Local(Raise("PermastoreItError", "Failed to read local file"), fsys)
    ELSE LET r == make_request(base, Str_slash \o Str_upload, e.resp)
             req == Request(base, "POST", Str_slash \o Str_upload,
                            upload_timeout(tmo), NoLimit, NoQuery, FALSE,
                            IF file.mime = "known" THEN "guessed"
                            ELSE "application/octet-stream",
                            file.content)
         IN  \* response.json() is inside the try: its JSONDecodeError is an
             \* IOError and is caught by  except IOError
             Result(IF r.kind = "return" /\ ~JsonDecodes(r.value)
                    THEN Raise("PermastoreItError", "Failed to read local file")
                    ELSE r,
                    <<req>>, fsys, r)

\* upload with the regular-file check made after the request instead of before
upload_CheckAfterSend(base, tmo, file, fsys, e) ==
    LET r == upload_send(base, tmo, [file EXCEPT !.readable = TRUE], fsys, e)
    IN  IF file.kind # "file"
        THEN Result(Raise("FileNotFoundError", "Local file not found or is not a regular file"),
                    r.sent, fsys, r.helper)
        ELSE IF file.mime = "unknown"
        THEN Local(Raise("NameError", "sys"), fsys)
        ELSE upload_send(base, tmo, file, fsys, e)

upload(base, tmo, file, fsys, e) ==
    IF file.kind # "file"
    THEN Local(Raise("FileNotFoundError", "Local file not found or is not a regular file"),
               fsys)
    ELSE IF file.mime = "unknown"
    THEN \* the warning is printed to sys.stderr, and the module imports no sys
         Local(Raise("NameError", "sys"), fsys)
    ELSE upload_send(base, tmo, file, fsys, e)

SaveDir == <<"d">>

\* os.path.join(save_dir, save_filename)
full_save_path(save_filename) == SaveDir \o Str_slash \o save_filename

\* the save name download uses: the hash when no name is given
SaveFilename(h, name) == IF name = <<>> THEN h ELSE name

\* for chunk in response.iter_content(...): f.write(chunk), with k chunks
\* consumed so far; the stream raises after sf chunks, the write of chunk wf
\* raises
RECURSIVE StreamToFile(_, _, _, _, _, _)
StreamToFile(fsys, name, chunks, k, sf, wf) ==
    IF sf = k THEN [fs |-> fsys, error |-> "stream"]
    ELSE IF k = Len(chunks) THEN [fs |-> fsys, error |-> "none"]
    ELSE IF wf = k + 1 THEN [fs |-> fsys, error |-> "write"]
    ELSE StreamToFile(Write(fsys, name, <<chunks[k + 1]>>), name, chunks,
                      k + 1, sf, wf)

download(base, tmo, h, name, fsys, e) ==
    LET save_filename == SaveFilename(h, name)
        fs1 == MakeDirs(fsys, e.makedirs_ok)
        req == Request(base, "GET", DownloadEndpoint(h), tmo, NoLimit, NoQuery,
                       TRUE, "none", <<>>)
        r   == make_request(base, DownloadEndpoint(h), e.resp)
    IN  IF ~fs1.dir_exists
        THEN Local(Raise("PermastoreItError", "Failed to create save directory"), fs1)
        ELSE IF r.kind = "raise"
        THEN \* every exception of _make_request is caught by  except Exception
             Result(Raise("PermastoreItError", "Unexpected error during download/save"),
                    <<req>>, Remove(fs1, save_filename), r)
        ELSE IF ~CanOpenWb(fs1, save_filename)
        THEN Result(Raise("PermastoreItError", "Failed to write downloaded file"),
                    <<req>>, Remove(fs1, save_filename), r)
        ELSE LET w == StreamToFile(OpenWb(fs1, save_filename), save_filename,
                                   e.chunks, 0, e.stream_fail_at, e.write_fail_at)
             IN  IF w.error # "none"
                 THEN \* a broken stream raises a RequestException, an IOError
                      Result(Raise("PermastoreItError", "Failed to write downloaded file"),
                             <<req>>, Remove(w.fs, save_filename), r)
                 ELSE Result(ReturnPath(full_save_path(save_filename)), <<req>>,
                             w.fs, r)

-----------------------------------------------------------------------------
(* Specification of the SDK: one call of one operation, on any arguments,  *)
(* any answer of the node and any state of the save directory.             *)

BaseUrls == { <<"n">>, <<"n", "/">> }
DefaultTimeout == 60
Timeouts == {30, DefaultTimeout, 100}

NoDir == [dir_exists |-> FALSE, dir_writable |-> FALSE, files |-> NoFiles]

PreFile(w) == [content |-> OldContent, writable |-> w]

\* the save directory before a call: absent, or present (writable or not) with
\* no file or one file left there earlier
FsStates ==
    {NoDir}
    \cup { [dir_exists |-> TRUE, dir_writable |-> dw, files |-> NoFiles] : dw \in BOOLEAN }
    \cup { [dir_exists |-> TRUE, dir_writable |-> dw,
            files |-> Put(NoFiles, n, PreFile(fw))] :
             dw \in BOOLEAN, fw \in BOOLEAN, n \in {Hash_ab, Name_n} }

SdkCalls ==
    { Call(op, <<>>, NoName, NoLimit, NoQuery, NoFile) :
        op \in {"get_root_message", "get_status", "get_health"} }
    \cup { Call(op, h, NoName, NoLimit, NoQuery, NoFile) :
             op \in {"get_file_info", "get_zk_proof"}, h \in Hashes }
    \cup { Call("list_files", <<>>, NoName, l, NoQuery, NoFile) : l \in Limits }
    \cup { Call("search", <<>>, NoName, l, q, NoFile) : l \in Limits, q \in Queries }
    \cup { Call("upload", <<>>, NoName, NoLimit, NoQuery, f) : f \in LocalPaths }
    \cup { Call("download", h, n, NoLimit, NoQuery, NoFile) :
             h \in Hashes, n \in SaveNames }

Cmd(name, file_hash, save_name, limit) ==
    [name |-> name, file_hash |-> file_hash, save_name |-> save_name,
     limit |-> limit]

NoCmd == Cmd("none", <<>>, <<>>, NoLimit)

CliInert ==
    /\ cmd = NoCmd
    /\ repeat = 0
    /\ i = 0
    /\ results_data = <<>>
    /\ overall_success = TRUE
    /\ output_format = "text"
    /\ attempts = <<>>
    /\ stdout = <<>>
    /\ stderr = <<>>
    /\ exit_code = -1
    /\ files_to_upload = <<>>
    /\ success_count = 0
    /\ fail_count = 0

NoNode == [h \in {} |-> <<>>]

Init ==
    /\ base_url \in { RStrip(b, "/") : b \in BaseUrls }
    /\ timeout \in Timeouts
    /\ call \in SdkCalls
    /\ env \in (IF call.op = "download" THEN DownloadEnvs ELSE RequestEnvs)
    /\ fs \in (IF call.op = "download" THEN FsStates ELSE {NoDir})
    /\ outcome = NotStarted
    /\ helper = NotStarted
    /\ fs_before = fs
    /\ sent = <<>>
    /\ pc = "call"
    /\ CliInert
    /\ node = NoNode
    /\ local_file = NoFile

\* the call returns or raises: r is what the operation computed
Finish(r) ==
    /\ outcome' = r.outcome
    /\ helper' = r.helper
    /\ fs_before' = fs
    /\ sent' = r.sent
    /\ fs' = r.fs
    /\ pc' = "returned"
    /\ UNCHANGED <<base_url, timeout, call, env, cmd, repeat, i, results_data,
                   overall_success, output_format, attempts, stdout, stderr,
                   exit_code, bulkVars, nodeVars>>

Invoked(op) == pc = "call" /\ call.op = op

GetRootMessage ==
    Invoked("get_root_message") /\ Finish(get_root_message(base_url, timeout, fs, env))

GetStatus ==
    Invoked("get_status") /\ Finish(get_status(base_url, timeout, fs, env))

GetHealth ==
    Invoked("get_health") /\ Finish(get_health(base_url, timeout, fs, env))

GetFileInfo ==
    Invoked("get_file_info")
    /\ Finish(get_file_info(base_url, timeout, call.file_hash, fs, env))

GetZkProof ==
    Invoked("get_zk_proof")
    /\ Finish(get_zk_proof(base_url, timeout, call.file_hash, fs, env))

ListFiles ==
    Invoked("list_files") /\ Finish(list_files(base_url, timeout, call.limit, fs, env))

Search ==
    Invoked("search")
    /\ Finish(search(base_url, timeout, call.query, call.limit, fs, env))

Upload ==
    Invoked("upload") /\ Finish(upload(base_url, timeout, call.file_path, fs, env))

Download ==
    Invoked("download")
    /\ Finish(download(base_url, timeout, call.file_hash, call.save_filename, fs, env))

Next ==
    \/ GetRootMessage
    \/ GetStatus
    \/ GetHealth
    \/ GetFileInfo
    \/ GetZkProof
    \/ ListFiles
    \/ Search
    \/ Upload
    \/ Download

Spec == Init /\ [][Next]_vars

TypeOK ==
    /\ pc \in {"call", "returned", "loop", "run", "exited", "rt_start",
              "rt_uploaded", "rt_failed", "rt_done"}
    /\ outcome.kind \in {"return", "raise"}
    /\ Len(sent) <= 1

-----------------------------------------------------------------------------
(* Properties of the SDK, stated on the state after the call.              *)

Returned == pc = "returned"

\* the call handed a request to the session and the node answered status st
Answered(st) ==
    Returned /\ sent # <<>> /\ env.resp.t = "response" /\ env.resp.status = st

Is2xx(status) == 200 <= status /\ status <= 299

\* h is exactly one path segment
IsSingleSegment(h) == h # <<>> /\ \A k \in 1..Len(h) : h[k] # "/"

ResourceOps == {"download", "get_file_info", "get_zk_proof"}

\* C1: in _make_request, a 404 on /download/{h}, /file-info/{h} or
\* /zk-proof/{h} with exactly one segment h is FileNotFoundErrorOnServer
\* carrying h; a 404 on any other endpoint is a plain APIError with status 404.
C1_NotFoundMapping ==
    Answered(404) =>
        IF call.op \in ResourceOps
        THEN /\ IsSingleSegment(call.file_hash) =>
                  /\ helper.exc = "FileNotFoundErrorOnServer"
                  /\ helper.resource_id = call.file_hash
             /\ Contains(call.file_hash, Str_slash) =>
                  /\ helper.exc = "APIError"
                  /\ helper.status_code = 404
        ELSE /\ helper.exc = "APIError"
             /\ helper.status_code = 404

\* C2: a 501 answer to the /zk-proof/{hash} request of get_zk_proof ends in
\* ZKPDisabledError, whatever the body.
C2_ZkpDisabledOn501 ==
    (Answered(501) /\ call.op = "get_zk_proof") => outcome.exc = "ZKPDisabledError"

\* C3: the failure of the /download/{hash} request reaches the caller of
\* download as raised by _make_request: FileNotFoundErrorOnServer carrying the
\* hash on 404, APIError with the status on another non-2xx status,
\* NetworkError on a transport failure.
C3_DownloadFailurePropagates ==
    (Returned /\ call.op = "download" /\ sent # <<>>) =>
        /\ (env.resp.t = "response" /\ env.resp.status = 404
              /\ IsSingleSegment(call.file_hash)) =>
             (outcome.exc = "FileNotFoundErrorOnServer"
                /\ outcome.resource_id = call.file_hash)
        /\ (env.resp.t = "response" /\ ~Is2xx(env.resp.status)
              /\ env.resp.status # 404) =>
             (outcome.exc = "APIError" /\ outcome.status_code = env.resp.status)
        /\ env.resp.t # "response" => outcome.exc = "NetworkError"

\* C4: every answer with a status outside 200..299 ends the operation in one
\* of APIError, FileNotFoundErrorOnServer, ZKPDisabledError.
C4_Non2xxIsTypedFailure ==
    (Returned /\ sent # <<>> /\ env.resp.t = "response" /\ ~Is2xx(env.resp.status)) =>
        (outcome.kind = "raise" /\ outcome.exc \in APIErrorClasses)

\* the body stream of a download broke while it was written to disk
StreamBroke ==
    /\ call.op = "download"
    /\ helper.kind = "return"
    /\ CanOpenWb(MakeDirs(fs_before, env.makedirs_ok),
                 SaveFilename(call.file_hash, call.save_filename))
    /\ env.stream_fail_at # NoFault
    /\ ~(env.write_fail_at # NoFault /\ env.write_fail_at <= env.stream_fail_at)

\* C5: a transport failure, on sending the request or on streaming the body,
\* reaches the caller as NetworkError naming the URL.
C5_TransportFailureIsNetworkError ==
    (Returned /\ sent # <<>> /\ (env.resp.t # "response" \/ StreamBroke)) =>
        (outcome.exc = "NetworkError" /\ outcome.url = sent[1].url)

\* C6: upload of a path that is not a regular file raises FileNotFoundError
\* and hands no request to the session.
C6_UploadChecksFileFirst ==
    (Returned /\ call.op = "upload" /\ call.file_path.kind # "file") =>
        (outcome.exc = "FileNotFoundError" /\ sent = <<>>)

C6_Witness ==
    /\ Returned
    /\ call.op = "upload"
    /\ call.file_path.kind = "dir"
    /\ env.resp.t = "response" /\ env.resp.status = 200
    /\ outcome.exc = "FileNotFoundError"
    /\ sent = <<>>

\* the target path of the download call
Target == SaveFilename(call.file_hash, call.save_filename)

\* opening the target failed, or a write to it failed
OpenOrWriteFailed ==
    /\ call.op = "download"
    /\ helper.kind = "return"
    /\ \/ ~CanOpenWb(MakeDirs(fs_before, env.makedirs_ok), Target)
       \/ /\ env.write_fail_at # NoFault
          /\ env.stream_fail_at = NoFault \/ env.write_fail_at <= env.stream_fail_at

CreatedByThisDownload ==
    Exists(fs, Target) /\ ~Exists(fs_before, Target)

\* C7 as stated: a failed open or write ends in PermastoreItError with no file
\* of this download left, and a file is at the target path after download
\* only if download returned the path.
C7_NoFileUnlessReturned ==
    (Returned /\ call.op = "download") =>
        /\ OpenOrWriteFailed =>
             (outcome.exc = "PermastoreItError" /\ ~CreatedByThisDownload)
        /\ Exists(fs, Target) => outcome.kind = "return"

\* C7 amended: a failed open or write ends in PermastoreItError with no file
\* of this download left, and a file created by this download is at the
\* target path afterwards only if download returned the path.
C7_NoCreatedFileUnlessReturned ==
    (Returned /\ call.op = "download") =>
        /\ OpenOrWriteFailed =>
             (outcome.exc = "PermastoreItError" /\ ~CreatedByThisDownload)
        /\ CreatedByThisDownload =>
             (outcome.kind = "return" /\ outcome.path = full_save_path(Target))

\* a write fails after a chunk was written to a file this call created
C7_Witness ==
    /\ Returned
    /\ call.op = "download"
    /\ OpenOrWriteFailed
    /\ env.resp.status = 200
    /\ env.write_fail_at = 2
    /\ ~Exists(fs_before, Target)
    /\ fs_before.dir_exists /\ fs_before.dir_writable
    /\ outcome.exc = "PermastoreItError"
    /\ ~Exists(fs, Target)

\* the limit is a positive integer (a bool is an int: True is 1)
IsPositiveInt(limit) == limit.type \in {"int", "bool"} /\ limit.val >= 1

\* C8: list_files and search with a limit that is not a positive integer raise
\* ValueError and hand no request to the session; otherwise exactly one
\* request goes out, with the limit given or, for list_files, with none.
C8_LimitValidatedBeforeRequest ==
    (Returned /\ call.op \in {"list_files", "search"}) =>
        IF call.op = "list_files" /\ call.limit = NoLimit
        THEN Len(sent) = 1 /\ sent[1].limit = NoLimit
        ELSE IF IsPositiveInt(call.limit)
        THEN Len(sent) = 1 /\ sent[1].limit = call.limit
        ELSE outcome.exc = "ValueError" /\ sent = <<>>

C8_Witness ==
    /\ Returned
    /\ call.op = "list_files"
    /\ call.limit = [type |-> "int", val |-> 0]
    /\ outcome.exc = "ValueError"
    /\ sent = <<>>

\* upload was called on a readable regular file of unresolved MIME type
UploadedUnresolved ==
    /\ Returned
    /\ call.op = "upload"
    /\ call.file_path.kind = "file"
    /\ call.file_path.readable
    /\ call.file_path.mime = "unknown"

\* C13: upload of an existing regular file whose MIME type cannot be guessed
\* still sends exactly one POST /upload whose file part has the type
\* application/octet-stream; the unresolved type alone never makes it fail.
C13_UnresolvedMimeStillUploads ==
    UploadedUnresolved =>
        /\ Len(sent) = 1
        /\ sent[1].method = "POST"
        /\ sent[1].content_type = "application/octet-stream"
        /\ (env.resp.t = "response" /\ Is2xx(env.resp.status)
              /\ env.resp.body.k = "obj") => outcome.kind = "return"

\* C14: every request carries one timeout: for upload the larger of twice
\* the configured default and 120 seconds, for every other operation the
\* configured default itself.
C14_OneEffectiveTimeout ==
    Returned =>
        \A k \in 1..Len(sent) :
            IF call.op = "upload"
            THEN /\ sent[k].timeout >= 2 * timeout
                 /\ sent[k].timeout >= 120
                 /\ sent[k].timeout \in {2 * timeout, 120}
            ELSE sent[k].timeout = timeout

\* an upload with a short default timeout: the floor of 120 applies
C14_Witness ==
    /\ Returned
    /\ call.op = "upload"
    /\ timeout = 30
    /\ Len(sent) = 1
    /\ sent[1].timeout = 120

\* an upload with a long default timeout: twice the default applies
C14_WitnessDoubled ==
    /\ Returned
    /\ call.op = "upload"
    /\ timeout = 100
    /\ Len(sent) = 1
    /\ sent[1].timeout = 200

\* the local preconditions of the call: a valid limit, a readable regular
\* file to upload, a save directory that exists or can be created
LocalPreconditionsPass ==
    CASE call.op = "list_files" -> call.limit.type = "none" \/ IsPositiveInt(call.limit)
      [] call.op = "search"     -> IsPositiveInt(call.limit)
      [] call.op = "upload"     -> call.file_path.kind = "file" /\ call.file_path.readable
      [] call.op = "download"   -> fs_before.dir_exists \/ env.makedirs_ok
      [] OTHER                  -> TRUE

\* C17: a call of an SDK operation sends at most one request: exactly one
\* when its local preconditions pass and none otherwise; a request that
\* failed is not sent again.
C17_OneRequestPerCall ==
    Returned =>
        /\ Len(sent) <= 1
        /\ Len(sent) = 1 <=> LocalPreconditionsPass

\* the same with the MIME type of the uploaded file resolved
C17_OneRequestPerCallResolvedMime ==
    (Returned /\ ~UploadedUnresolved) =>
        /\ Len(sent) <= 1
        /\ Len(sent) = 1 <=> LocalPreconditionsPass

\* download made its request and the request failed, so the destination file
\* was never opened
DownloadRequestFailed ==
    /\ Returned
    /\ call.op = "download"
    /\ Len(sent) = 1
    /\ helper.kind = "raise"

\* C20: a download whose request failed (404, another non-2xx answer, a
\* transport failure) leaves the files of the save directory as they were; a
\* file that was at the target path is still there with its content.
C20_FailedRequestLeavesFiles ==
    DownloadRequestFailed =>
        /\ fs.files = fs_before.files
        /\ Exists(fs_before, Target) =>
              /\ Exists(fs, Target)
              /\ fs.files[Target].content = fs_before.files[Target].content

\* the same when no file was at the target path before the call
C20_FailedRequestCreatesNoFile ==
    (DownloadRequestFailed /\ ~Exists(fs_before, Target)) =>
        fs.files = fs_before.files

\* a 404 on the download of a hash whose earlier copy is in the save directory
FailedDownloadRemovedFile ==
    /\ DownloadRequestFailed
    /\ env.resp.status = 404
    /\ Exists(fs_before, Target)
    /\ ~Exists(fs, Target)

-----------------------------------------------------------------------------
(* The command layer: handle_sdk_error and the repeatable commands.        *)

\* the classes an exception is an instance of
Bases(exc) ==
    CASE exc = "FileNotFoundErrorOnServer" ->
             {"FileNotFoundErrorOnServer", "APIError", "PermastoreItError", "Exception"}
      [] exc = "ZKPDisabledError" ->
             {"ZKPDisabledError", "APIError", "PermastoreItError", "Exception"}
      [] exc = "APIError" -> {"APIError", "PermastoreItError", "Exception"}
      [] exc = "NetworkError" -> {"NetworkError", "PermastoreItError", "Exception"}
      [] exc = "PermastoreItError" -> {"PermastoreItError", "Exception"}
      [] exc = "FileNotFoundError" -> {"FileNotFoundError", "OSError", "Exception"}
      [] OTHER -> {exc, "Exception"}

IsInstance(o, cls) == cls \in Bases(o.exc)

\* the text of a panel: its wording and the fields of the exception it shows
Message(text, status_code, detail, resource_id, url) ==
    [text |-> text, status_code |-> status_code, detail |-> detail,
     resource_id |-> resource_id, url |-> url]

NoMessage == Message("none", 0, "none", <<>>, <<>>)

\* a message built from f"...{e}": str(e) holds what the exception was
\* constructed with
StrMessage(text, o) == Message(text, o.status_code, o.detail, o.resource_id, o.url)

\* handle_sdk_error with the general APIError tested before its subclasses
handle_sdk_error_GeneralFirst(o) ==
    IF IsInstance(o, "APIError")
    THEN [title |-> "Error",
          message |-> Message("API Error", o.status_code, o.detail, <<>>, <<>>)]
    ELSE IF IsInstance(o, "FileNotFoundErrorOnServer")
    THEN [title |-> "Error",
          message |-> Message("Resource not found on the server (404)", 0, "none",
                              o.resource_id, <<>>)]
    ELSE IF IsInstance(o, "ZKPDisabledError")
    THEN [title |-> "Warning", message |-> StrMessage("str(e)", o)]
    ELSE IF IsInstance(o, "NetworkError")
    THEN [title |-> "Error", message |-> StrMessage("Network Error", o)]
    ELSE IF IsInstance(o, "FileNotFoundError")
    THEN [title |-> "Error", message |-> StrMessage("Local File Error", o)]
    ELSE IF IsInstance(o, "PermastoreItError")
    THEN [title |-> "Error", message |-> StrMessage("SDK Error", o)]
    ELSE [title |-> "Error", message |-> StrMessage("An unexpected error occurred", o)]

\* the panel handle_sdk_error prints for the exception o
handle_sdk_error(o) ==
    IF IsInstance(o, "FileNotFoundErrorOnServer")
    THEN [title |-> "Error",
          message |-> Message("Resource not found on the server (404)", 0, "none",
                              o.resource_id, <<>>)]
    ELSE IF IsInstance(o, "ZKPDisabledError")
    THEN [title |-> "Warning", message |-> StrMessage("str(e)", o)]
    ELSE IF IsInstance(o, "APIError")
    THEN [title |-> "Error",
          message |-> Message("API Error", o.status_code, o.detail, <<>>, <<>>)]
    ELSE IF IsInstance(o, "NetworkError")
    THEN [title |-> "Error", message |-> StrMessage("Network Error", o)]
    ELSE IF IsInstance(o, "FileNotFoundError")
    THEN [title |-> "Error", message |-> StrMessage("Local File Error", o)]
    ELSE IF IsInstance(o, "PermastoreItError")
    THEN [title |-> "Error", message |-> StrMessage("SDK Error", o)]
    ELSE [title |-> "Error", message |-> StrMessage("An unexpected error occurred", o)]

\* a line or panel on the stderr console
Line(text) == [title |-> "none", message |-> [NoMessage EXCEPT !.text = text]]

\* an element of results_data (the measured times are left out)
SuccessRecord(path) == [success |-> TRUE, error |-> NoMessage, path |-> path]
FailureRecord(msg)  == [success |-> FALSE, error |-> msg, path |-> <<>>]

\* str(i) for the loop index
Digits == <<"0", "1", "2", "3", "4", "5", "6", "7", "8", "9">>

RECURSIVE StrOfInt(_)
StrOfInt(n) ==
    IF n < 10 THEN <<Digits[n + 1]>>
    ELSE StrOfInt(n \div 10) \o <<Digits[(n % 10) + 1]>>

\* every attempt of the download command saving under the same name
AttemptFilename_NoSuffix(c, rep, k) ==
    IF c.save_name # <<>> THEN c.save_name ELSE c.file_hash

\* save_filename of attempt k of the download command
AttemptFilename(c, rep, k) ==
    LET save_filename_base == IF c.save_name # <<>> THEN c.save_name ELSE c.file_hash
    IN  IF rep > 1 THEN save_filename_base \o <<".">> \o StrOfInt(k)
        ELSE save_filename_base

\* what one attempt of the upload command gets from the SDK: the result of
\* client.upload, or TypeError when result['upload_time_ms'] = ... is applied to
\* a decoded body that is not a dict
UploadAttemptResult(base, tmo, file, fsys, e) ==
    LET r == upload(base, tmo, file, fsys, e)
    IN  IF r.outcome.kind = "return" /\ r.outcome.value.k # "obj"
        THEN [r EXCEPT !.outcome = Raise("TypeError", "result['upload_time_ms']")]
        ELSE r

\* what one attempt of the download command gets: os.makedirs(out_dir) of the
\* command, then client.download
DownloadAttemptResult(base, tmo, h, save_filename, fsys, e) ==
    IF ~MakeDirs(fsys, e.makedirs_ok).dir_exists
    THEN Local(Raise("OSError", "os.makedirs"), fsys)
    ELSE download(base, tmo, h, save_filename, MakeDirs(fsys, e.makedirs_ok), e)

\* a failed attempt exits whatever the repeat count
exit_on_error_Always(rep) == TRUE

\* a failed attempt never exits
exit_on_error_Never(rep) == FALSE

\* the argument  exit_on_error=(repeat == 1)  of handle_sdk_error
exit_on_error(rep) == rep = 1

\* the body of the except clause and the end of one loop iteration: r is what
\* the attempt got, target the file name it was to save (download only)
AttemptDone(r, c, e, target) ==
    LET ok     == r.outcome.kind = "return"
        panel  == handle_sdk_error(r.outcome)
        head   == IF repeat > 1 THEN <<Line("-- Attempt --")>> ELSE <<>>
        exits  == ~ok /\ exit_on_error(repeat)
    IN  /\ call' = c
        /\ env' = e
        /\ outcome' = r.outcome
        /\ helper' = r.helper
        /\ sent' = r.sent
        /\ fs_before' = fs
        /\ fs' = r.fs
        /\ attempts' = Append(attempts, [i |-> i, target |-> target,
                                         requests |-> Len(r.sent), success |-> ok])
        /\ stderr' = stderr \o head \o
                     (IF ok
                      THEN IF output_format = "text"
                           THEN <<[title |-> "Result", message |-> NoMessage]>>
                           ELSE <<>>
                      ELSE <<panel>>)
        /\ overall_success' = (overall_success /\ ok)
        /\ IF exits
           THEN \* handle_sdk_error(e, exit_on_error=True): sys.exit(1)
                /\ exit_code' = 1
                /\ pc' = "exited"
                /\ UNCHANGED <<results_data, i>>
           ELSE /\ results_data' = Append(results_data,
                                          IF ok THEN SuccessRecord(r.outcome.path)
                                          ELSE FailureRecord(panel.message))
                /\ i' = i + 1
                /\ UNCHANGED <<exit_code, pc>>
        /\ UNCHANGED <<base_url, timeout, cmd, repeat, output_format, stdout,
                       bulkVars, nodeVars>>

\* the local path and the node's answers met by the commands
CliLocalPaths ==
    { File("file", "known", TRUE, Body(1)), File("file", "unknown", TRUE, Body(1)),
      File("missing", "none", FALSE, <<>>) }

CliBodies ==
    { [k |-> "obj", len |-> 20, detail |-> "msg", status |-> "none"],
      [k |-> "text", len |-> 150, detail |-> "none", status |-> "none"],
      [k |-> "nonobj", len |-> 2, detail |-> "none", status |-> "none"],
      [k |-> "list", len |-> 2, detail |-> "none", status |-> "none"] }

CliResponses ==
    { [t |-> "response", status |-> st, body |-> b] :
        st \in {200, 404, 500}, b \in CliBodies }
    \cup { [t |-> "ConnectionError", status |-> 0, body |-> NoBody] }

CliUploadEnvs == { Env(r, TRUE, <<>>, NoFault, NoFault) : r \in CliResponses }

CliDownloadEnvs ==
    { Env(r, m, <<>>, NoFault, NoFault) :
        r \in { x \in CliResponses : x.t # "response" \/ ~Ok(x.status) },
        m \in BOOLEAN }
    \cup { Env([t |-> "response", status |-> 200, body |-> NoBody], m,
               Body(MaxChunks), sf, wf) :
             m \in BOOLEAN, sf \in {NoFault, 1}, wf \in {NoFault, 1} }

\* the commands with a --repeat option
Repeatable == {"upload", "download"}

\* a loop that runs its body once before it tests the count
Looping_AtLeastOnce ==
    pc = "loop" /\ cmd.name \in Repeatable /\ (i < repeat \/ attempts = <<>>)

\* for i in range(repeat)
Looping == pc = "loop" /\ cmd.name \in Repeatable /\ i < repeat

\* one iteration of  for i in range(repeat)  of the upload command
UploadAttempt ==
    /\ Looping
    /\ cmd.name = "upload"
    /\ \E file \in CliLocalPaths, e \in CliUploadEnvs :
         AttemptDone(UploadAttemptResult(base_url, timeout, file, fs, e),
                     Call("upload", <<>>, NoName, NoLimit, NoQuery, file), e, <<>>)

\* one iteration of  for i in range(repeat)  of the download command
DownloadAttempt ==
    /\ Looping
    /\ cmd.name = "download"
    /\ \E e \in CliDownloadEnvs :
         LET save_filename == AttemptFilename(cmd, repeat, i)
         IN  AttemptDone(DownloadAttemptResult(base_url, timeout, cmd.file_hash,
                                               save_filename, fs, e),
                         Call("download", cmd.file_hash, save_filename, NoLimit,
                              NoQuery, NoFile),
                         e, save_filename)

\* after the loop: print the records in json mode, exit 1 if an attempt of a
\* repeated command failed
CommandEnd ==
    /\ pc = "loop"
    /\ cmd.name \in Repeatable
    /\ ~(i < repeat)
    /\ stdout' = IF output_format = "json" THEN stdout \o results_data ELSE stdout
    /\ exit_code' = IF ~overall_success /\ repeat > 1 THEN 1 ELSE 0
    /\ pc' = "exited"
    /\ UNCHANGED <<base_url, timeout, fs, call, env, outcome, helper, fs_before,
                   sent, cmd, repeat, i, results_data, overall_success,
                   output_format, attempts, stderr, bulkVars, nodeVars>>

(* upload-bulk: one upload per matched file, none of them fatal.           *)

\* the k-th path the glob pattern matched
FilePath(k) == <<"f">> \o StrOfInt(k)
FileList(n) == [k \in 1..n |-> FilePath(k)]

\* elements of results_data of upload-bulk, and the summary printed last
BulkSuccessRecord(file_path) ==
    [success |-> TRUE, source_file |-> file_path, error |-> NoMessage]
BulkFailureRecord(file_path, msg) ==
    [success |-> FALSE, source_file |-> file_path, error |-> msg]
Summary(total_files, success, failed) ==
    [summary |-> [total_files |-> total_files, success |-> success,
                  failed |-> failed]]

\* a per-file failure ends the command
bulk_exit_on_error_Abort == TRUE

\* handle_sdk_error(e, exit_on_error=False) in the loop of upload-bulk
bulk_exit_on_error == FALSE

InBulk == pc = "loop" /\ cmd.name = "upload-bulk"

\* if not files_to_upload: print "No files found" and return
BulkNoFiles ==
    /\ InBulk
    /\ files_to_upload = <<>>
    /\ stderr' = Append(stderr, Line("No files found matching pattern."))
    /\ exit_code' = 0
    /\ pc' = "exited"
    /\ UNCHANGED <<base_url, timeout, fs, sdkVars, cmd, repeat, i, results_data,
                   overall_success, output_format, attempts, stdout, bulkVars,
                   nodeVars>>

\* one iteration of  for file_path in files_to_upload ; i counts the files
\* the iterator has yielded
BulkAttempt ==
    /\ InBulk
    /\ i < Len(files_to_upload)
    /\ \E file \in CliLocalPaths, e \in CliUploadEnvs :
         LET file_path == files_to_upload[i + 1]
             r     == UploadAttemptResult(base_url, timeout, file, fs, e)
             ok    == r.outcome.kind = "return"
             panel == handle_sdk_error(r.outcome)
         IN  /\ call' = Call("upload", <<>>, NoName, NoLimit, NoQuery, file)
             /\ env' = e
             /\ outcome' = r.outcome
             /\ helper' = r.helper
             /\ sent' = r.sent
             /\ fs_before' = fs
             /\ fs' = r.fs
             /\ attempts' = Append(attempts, [i |-> i, target |-> file_path,
                                              requests |-> Len(r.sent),
                                              success |-> ok])
             /\ stderr' = IF ok THEN stderr ELSE Append(stderr, panel)
             /\ IF ~ok /\ bulk_exit_on_error
                THEN /\ exit_code' = 1
                     /\ pc' = "exited"
                     /\ UNCHANGED <<results_data, i, success_count, fail_count>>
                ELSE /\ results_data' =
                          Append(results_data,
                                 IF ok THEN BulkSuccessRecord(file_path)
                                 ELSE BulkFailureRecord(file_path, panel.message))
                     /\ success_count' = IF ok THEN success_count + 1 ELSE success_count
                     /\ fail_count' = IF ok THEN fail_count ELSE fail_count + 1
                     /\ i' = i + 1
                     /\ UNCHANGED <<exit_code, pc>>
             /\ UNCHANGED <<base_url, timeout, cmd, repeat, overall_success,
                            output_format, stdout, files_to_upload, nodeVars>>

\* after the loop: the summary line, and in json mode the summary record and
\* the result records; the function returns
BulkEnd ==
    /\ InBulk
    /\ files_to_upload # <<>>
    /\ ~(i < Len(files_to_upload))
    /\ stderr' = Append(stderr, Line("Bulk upload complete."))
    /\ stdout' = IF output_format = "json"
                 THEN stdout
                      \o <<Summary(Len(files_to_upload), success_count, fail_count)>>
                      \o results_data
                 ELSE stdout
    /\ exit_code' = 0
    /\ pc' = "exited"
    /\ UNCHANGED <<base_url, timeout, fs, sdkVars, cmd, repeat, i, results_data,
                   overall_success, output_format, attempts, bulkVars, nodeVars>>

(* The single-shot commands: one SDK call, rendered, then the process ends. *)

\* the data print_output prints on stdout in json mode
Data(value) == [data |-> value]

\* result['query_time_ms'] = duration_ms  applied to what the SDK returned:
\* TypeError unless it is a dict
Annotate(out) ==
    IF out.kind = "return" /\ out.value.k # "obj"
    THEN Raise("TypeError", "result['query_time_ms']")
    ELSE out

\* the table of list / search in text mode: item.get(...) for each item of
\* the results; iterating a dict or a string yields strings, which have no get
RenderTable(out, fmt) ==
    IF out.kind = "return" /\ fmt = "text" /\ out.value.k \in {"obj", "nonobj"}
    THEN Raise("AttributeError", "item.get")
    ELSE out

\* exit_code = 2 of the health command
UnhealthyExit == 2

\* an unhealthy node reported with the exit code of a failure
HealthExit_AsFailure(value) == IF value.status # "healthy" THEN 1 ELSE 0

\* the exit code of health after a rendered result
HealthExit(value) == IF value.status # "healthy" THEN UnhealthyExit ELSE 0

\* handle_sdk_error returning to the command instead of ending the process
exit_on_error_default_False == FALSE

\* the default  exit_on_error=True  of handle_sdk_error
exit_on_error_default == TRUE

\* the rest of a single-shot command after its SDK call r: seen is what the
\* try block ends with (a returned result or the exception caught), exit_ok
\* the exit code after a rendered result
SingleShotDone(r, seen, c, e, exit_ok) ==
    LET ok == seen.kind = "return"
    IN  /\ call' = c
        /\ env' = e
        /\ outcome' = r.outcome
        /\ helper' = r.helper
        /\ sent' = r.sent
        /\ fs_before' = fs
        /\ fs' = r.fs
        /\ attempts' = Append(attempts, [i |-> 0, target |-> <<>>,
                                         requests |-> Len(r.sent), success |-> ok])
        /\ stderr' = stderr \o
                     (IF ~ok THEN <<handle_sdk_error(seen)>>
                      ELSE IF output_format = "text"
                           THEN <<[title |-> "Result", message |-> NoMessage]>>
                           ELSE <<>>)
        /\ stdout' = IF ok /\ output_format = "json"
                     THEN Append(stdout, Data(seen.value))
                     ELSE stdout
        /\ overall_success' = ok
        \* handle_sdk_error(e): sys.exit(1); were it to return, the command
        \* would end normally
        /\ exit_code' = IF ok THEN exit_ok
                        ELSE IF exit_on_error_default THEN 1 ELSE 0
        /\ pc' = "exited"
        /\ UNCHANGED <<base_url, timeout, cmd, repeat, i, results_data,
                       output_format, bulkVars, nodeVars>>

Running(name) == pc = "run" /\ cmd.name = name

NoArgs(op) == Call(op, <<>>, NoName, NoLimit, NoQuery, NoFile)

StatusCmd ==
    /\ Running("status")
    /\ \E e \in RequestEnvs :
         LET r == get_status(base_url, timeout, fs, e)
         IN  SingleShotDone(r, Annotate(r.outcome), NoArgs("get_status"), e, 0)

HealthCmd ==
    /\ Running("health")
    /\ \E e \in RequestEnvs :
         LET r == get_health(base_url, timeout, fs, e)
         IN  SingleShotDone(r, Annotate(r.outcome), NoArgs("get_health"), e,
                            HealthExit(r.outcome.value))

ListCmd ==
    /\ Running("list")
    /\ \E e \in RequestEnvs :
         LET r == list_files(base_url, timeout, cmd.limit, fs, e)
         IN  SingleShotDone(r, RenderTable(r.outcome, output_format),
                            Call("list_files", <<>>, NoName, cmd.limit, NoQuery,
                                 NoFile), e, 0)

InfoCmd ==
    /\ Running("info")
    /\ \E e \in RequestEnvs :
         LET r == get_file_info(base_url, timeout, cmd.file_hash, fs, e)
         IN  SingleShotDone(r, Annotate(r.outcome),
                            Call("get_file_info", cmd.file_hash, NoName, NoLimit,
                                 NoQuery, NoFile), e, 0)

SearchCmd ==
    /\ Running("search")
    /\ \E e \in RequestEnvs, q \in Queries :
         LET r == search(base_url, timeout, q, cmd.limit, fs, e)
         IN  SingleShotDone(r, RenderTable(r.outcome, output_format),
                            Call("search", <<>>, NoName, cmd.limit, q, NoFile),
                            e, 0)

ZkpCmd ==
    /\ Running("zkp")
    /\ \E e \in RequestEnvs :
         LET r == get_zk_proof(base_url, timeout, cmd.file_hash, fs, e)
         IN  SingleShotDone(r, Annotate(r.outcome),
                            Call("get_zk_proof", cmd.file_hash, NoName, NoLimit,
                                 NoQuery, NoFile), e, 0)

\* get-metrics: the client has no get_metrics, so the command prints the
\* "Not Implemented" panel and calls sys.exit(1) without any SDK call
GetMetricsCmd ==
    /\ Running("get-metrics")
    /\ stderr' = Append(stderr, [title |-> "Not Implemented",
                                 message |-> [NoMessage EXCEPT !.text =
                                     "SDK method 'get_metrics()' not found."]])
    /\ exit_code' = 1
    /\ pc' = "exited"
    /\ UNCHANGED <<base_url, timeout, fs, sdkVars, cmd, repeat, i, results_data,
                   overall_success, output_format, attempts, stdout, bulkVars,
                   nodeVars>>

\* --limit of list and search: click.INT
CliLimit(n) == [type |-> "int", val |-> n]

SingleShot ==
    { Cmd(n, <<>>, <<>>, NoLimit) : n \in {"status", "health", "get-metrics"} }
    \cup { Cmd(n, h, <<>>, NoLimit) : n \in {"info", "zkp"}, h \in {Hash_ab, Hash_ZKP} }
    \cup { Cmd("list", <<>>, <<>>, l) : l \in {NoLimit, CliLimit(0), CliLimit(2)} }
    \cup { Cmd("search", <<>>, <<>>, l) :
             l \in {CliLimit(DefaultSearchLimit), CliLimit(0)} }

Commands ==
    { Cmd("upload", <<>>, <<>>, NoLimit), Cmd("upload-bulk", <<>>, <<>>, NoLimit) }
    \cup { Cmd("download", Hash_ab, n, NoLimit) : n \in SaveNames }
    \cup SingleShot

MinRepeat == -1

InitCli ==
    /\ base_url \in { RStrip(b, "/") : b \in BaseUrls }
    /\ timeout = DefaultTimeout
    /\ cmd \in Commands
    /\ repeat \in (IF cmd.name \in Repeatable THEN MinRepeat..MaxRepeat ELSE {0})
    /\ output_format \in {"text", "json"}
    /\ fs \in (IF cmd.name = "download"
               THEN {NoDir}
                    \cup { [dir_exists |-> TRUE, dir_writable |-> dw,
                            files |-> NoFiles] : dw \in BOOLEAN }
               ELSE {NoDir})
    /\ fs_before = fs
    /\ call = Call("none", <<>>, NoName, NoLimit, NoQuery, NoFile)
    /\ env = Env([t |-> "none", status |-> 0, body |-> NoBody], TRUE, <<>>,
                 NoFault, NoFault)
    /\ outcome = NotStarted
    /\ helper = NotStarted
    /\ sent = <<>>
    /\ pc = (IF cmd \in SingleShot THEN "run" ELSE "loop")
    /\ i = 0
    /\ results_data = <<>>
    /\ overall_success = TRUE
    /\ attempts = <<>>
    /\ stdout = <<>>
    /\ stderr = <<Line("... from base_url ...")>>
    /\ exit_code = -1
    /\ files_to_upload \in (IF cmd.name = "upload-bulk"
                            THEN { FileList(n) : n \in 0..MaxFiles }
                            ELSE {<<>>})
    /\ success_count = 0
    /\ fail_count = 0
    /\ node = NoNode
    /\ local_file = NoFile

NextCli ==
    \/ UploadAttempt
    \/ DownloadAttempt
    \/ CommandEnd
    \/ BulkNoFiles
    \/ BulkAttempt
    \/ BulkEnd
    \/ StatusCmd
    \/ HealthCmd
    \/ ListCmd
    \/ InfoCmd
    \/ SearchCmd
    \/ ZkpCmd
    \/ GetMetricsCmd

SpecCli == InitCli /\ [][NextCli]_vars

-----------------------------------------------------------------------------
(* Properties of the repeatable commands.                                  *)

Exited == pc = "exited"

SomeAttemptFailed == \E k \in 1..Len(attempts) : ~attempts[k].success

C10_SingleAttemptExit ==
    (repeat = 1 /\ attempts # <<>>) =>
        /\ Len(attempts) = 1
        /\ ~attempts[1].success =>
             /\ Exited
             /\ exit_code = 1
             /\ stderr[Len(stderr)] = handle_sdk_error(outcome)
        /\ attempts[1].success =>
             /\ exit_code \in {-1, 0}
             /\ Exited => exit_code = 0
             /\ ~Exited => ENABLED CommandEnd

C10_Witness ==
    /\ repeat = 1
    /\ cmd.name = "download"
    /\ Exited
    /\ ~attempts[1].success
    /\ outcome.exc = "PermastoreItError"
    /\ exit_code = 1

\* a single successful attempt, process ended with exit code 0
C10_WitnessSuccess ==
    /\ repeat = 1
    /\ Exited
    /\ attempts # <<>>
    /\ attempts[1].success
    /\ exit_code = 0

-----------------------------------------------------------------------------
(* Properties of upload-bulk.                                              *)

FailedAttempts == { k \in 1..Len(attempts) : ~attempts[k].success }

\* C11: a bulk upload over N >= 1 files attempts each file once, in order,
\* whatever failed; success_count + fail_count is always the number of files
\* processed; it ends with N result records, a summary of N - K successes and
\* K failures, and exit code 0.
C11_BulkUploadCompletes ==
    cmd.name = "upload-bulk" =>
        LET N == Len(files_to_upload)
            K == Cardinality(FailedAttempts)
        IN  /\ Len(attempts) <= N
            /\ \A k \in 1..Len(attempts) :
                   attempts[k].i = k - 1 /\ attempts[k].target = files_to_upload[k]
            /\ success_count + fail_count = Len(attempts)
            /\ fail_count = K
            /\ Len(results_data) = Len(attempts)
            /\ \A k \in 1..Len(results_data) :
                   /\ results_data[k].source_file = files_to_upload[k]
                   /\ results_data[k].success = attempts[k].success
            /\ (Exited /\ N >= 1) =>
                   /\ Len(attempts) = N
                   /\ exit_code = 0
                   /\ output_format = "json" =>
                          stdout = <<Summary(N, N - K, K)>> \o results_data

C11_Witness ==
    /\ cmd.name = "upload-bulk"
    /\ Exited
    /\ output_format = "json"
    /\ Len(files_to_upload) >= 2
    /\ fail_count >= 1
    /\ success_count >= 1
    /\ ~attempts[1].success

-----------------------------------------------------------------------------
(* Properties of the single-shot commands.                                 *)

HealthExited == cmd.name = "health" /\ Exited

\* the SDK call of the command returned / raised
CallReturned == outcome.kind = "return"
CallFailed == outcome.kind = "raise" /\ outcome # NotStarted

OneRequestPerAttempt ==
    /\ \A k \in 1..Len(attempts) : attempts[k].requests <= 1
    /\ Len(sent) <= 1
    /\ cmd.name \in Repeatable \cup {"upload-bulk"} =>
          \A k \in 1..Len(attempts) : attempts[k].i = k - 1

\* the command has just rendered the exception its SDK call raised
RenderedFailure ==
    /\ CallFailed
    /\ stderr[Len(stderr)].title \in {"Error", "Warning"}

\* C16: the panel rendered for a failure is determined by its kind and keeps
\* the kinds apart: a missing resource is named by its identifier and not
\* shown as an API error; ZKP disabled is the only Warning; a plain API error
\* shows status and detail; network, local-file and other SDK failures have
\* their own wording; anything else is an unexpected error.
C16_RenderingKeepsKindsApart ==
    RenderedFailure =>
        LET p == stderr[Len(stderr)]
            m == p.message
        IN  /\ p.title = "Warning" <=> outcome.exc = "ZKPDisabledError"
            /\ CASE outcome.exc = "FileNotFoundErrorOnServer" ->
                       /\ m.text = "Resource not found on the server (404)"
                       /\ m.resource_id = outcome.resource_id
                       /\ m.resource_id # <<>>
                  [] outcome.exc = "ZKPDisabledError" ->
                       /\ m.text = "str(e)"
                       /\ m.status_code = 501
                       /\ m.detail = "ZKP is not enabled on the target node"
                  [] outcome.exc = "APIError" ->
                       /\ m.text = "API Error"
                       /\ m.status_code = outcome.status_code
                       /\ m.detail = outcome.detail
                  [] outcome.exc = "NetworkError" ->
                       m.text = "Network Error" /\ m.url = outcome.url
                  [] outcome.exc = "FileNotFoundError" -> m.text = "Local File Error"
                  [] outcome.exc = "PermastoreItError" -> m.text = "SDK Error"
                  [] OTHER -> m.text = "An unexpected error occurred"

\* info on a hash the node does not have
C16_Witness ==
    /\ cmd.name = "info"
    /\ Exited
    /\ outcome.exc = "FileNotFoundErrorOnServer"
    /\ stderr[Len(stderr)].message.resource_id = Hash_ab
    /\ stderr[Len(stderr)].title = "Error"

\* C15: a single-shot command whose SDK call failed, with whatever failure
\* kind, has rendered the error on stderr and ended with a non-zero exit code;
\* it never ends with exit code 0 after a failed call.
C15_FailedCallExitsNonZero ==
    (cmd \in SingleShot /\ Exited) =>
        /\ exit_code # -1
        /\ CallFailed =>
              /\ exit_code # 0
              /\ stderr[Len(stderr)] = handle_sdk_error(outcome)
              /\ stdout = <<>>
        /\ exit_code = 0 => (CallReturned /\ Len(sent) = 1)

\* proof-fetch refused with ZKPDisabledError: a warning, then exit code 1
C15_Witness ==
    /\ cmd.name = "zkp"
    /\ Exited
    /\ outcome.exc = "ZKPDisabledError"
    /\ stderr[Len(stderr)].title = "Warning"
    /\ exit_code = 1

-----------------------------------------------------------------------------
(* Properties of the repeat option.                                        *)

\* --name if given, else the hash
DownloadBase == IF cmd.save_name # <<>> THEN cmd.save_name ELSE cmd.file_hash

\* C21: download with --repeat N > 1 saves attempt i (from 0) as <base>.<i>,
\* base being --name or else the hash, so the attempts have pairwise distinct
\* targets and the file an attempt saved is still there, whole, after every
\* later attempt; with --repeat 1 the target is base itself.
C21_RepeatTargetsDistinct ==
    cmd.name = "download" =>
        /\ \A k \in 1..Len(attempts) :
               LET t == attempts[k].target
               IN  IF repeat > 1
                   THEN /\ Len(t) > Len(DownloadBase) + 1
                        /\ SubSeq(t, 1, Len(DownloadBase)) = DownloadBase
                        /\ t[Len(DownloadBase) + 1] = "."
                        /\ SubSeq(t, Len(DownloadBase) + 2, Len(t)) = StrOfInt(k - 1)
                   ELSE t = DownloadBase
        /\ \A j, k \in 1..Len(attempts) :
               j # k => attempts[j].target # attempts[k].target
        /\ \A k \in 1..Len(attempts) :
               attempts[k].success =>
                   /\ Exists(fs, attempts[k].target)
                   /\ fs.files[attempts[k].target].content = Body(MaxChunks)

\* three attempts: saved, failed, saved; the first file is still there
C21_Witness ==
    /\ cmd.name = "download"
    /\ repeat >= 3
    /\ Len(attempts) >= 3
    /\ attempts[1].success /\ ~attempts[2].success /\ attempts[3].success
    /\ Exists(fs, DownloadBase \o <<".", "0">>)
    /\ ~Exists(fs, DownloadBase \o <<".", "1">>)
    /\ Exists(fs, DownloadBase \o <<".", "2">>)

\* the number of iterations of  for i in range(repeat)  the claim expects
ExpectedAttempts == IF repeat >= 1 THEN repeat ELSE 0

\* C22: upload and download make exactly N attempts for --repeat N >= 1 (one
\* that fails under --repeat 1 ends the process after that attempt); for
\* N <= 0 they make no attempt, send no request, print no record and end with
\* exit code 0.
C22_RepeatCountHonoured ==
    cmd.name \in Repeatable =>
        /\ Len(attempts) <= ExpectedAttempts
        /\ Exited => Len(attempts) = ExpectedAttempts
        /\ repeat <= 0 =>
              /\ attempts = <<>>
              /\ sent = <<>>
              /\ results_data = <<>>
              /\ stdout = <<>>
              /\ fs = fs_before
              /\ pc = "loop" => ENABLED CommandEnd
              /\ Exited => exit_code = 0

\* a command run with a negative repeat count has ended with exit code 0
C22_Witness ==
    /\ cmd.name \in Repeatable
    /\ repeat < 0
    /\ Exited
    /\ attempts = <<>>
    /\ exit_code = 0

\* a command run with the largest repeat count has made all its attempts
C22_WitnessAll ==
    /\ cmd.name = "upload"
    /\ repeat = MaxRepeat
    /\ Exited
    /\ Len(attempts) = MaxRepeat

-----------------------------------------------------------------------------
(* Properties of the output streams.                                       *)

\* C19: in json mode a command that has ended has printed on stdout exactly
\* one record per logical result, failed results included (also the failed
\* single attempt of a command run with --repeat 1); in text mode nothing is
\* printed on stdout.
C19_OneRecordPerResult ==
    Exited =>
        IF output_format = "json"
        THEN /\ cmd.name \in Repeatable =>
                  /\ Len(stdout) = Len(attempts)
                  /\ \A k \in 1..Len(stdout) : stdout[k].success = attempts[k].success
             /\ (cmd \in SingleShot /\ attempts # <<>>) => Len(stdout) = 1
             /\ (cmd.name = "upload-bulk" /\ attempts # <<>>) =>
                  Len(stdout) = Len(attempts) + 1
        ELSE stdout = <<>>

\* the same for the commands that did not end inside handle_sdk_error
C19_OneRecordPerResultUnlessExitOnError ==
    (Exited /\ ~(\/ cmd.name \in Repeatable /\ repeat = 1 /\ SomeAttemptFailed
                 \/ cmd \in SingleShot /\ SomeAttemptFailed)) =>
        IF output_format = "json"
        THEN /\ cmd.name \in Repeatable =>
                  /\ Len(stdout) = Len(attempts)
                  /\ \A k \in 1..Len(stdout) : stdout[k].success = attempts[k].success
             /\ (cmd \in SingleShot /\ attempts # <<>>) => Len(stdout) = 1
             /\ (cmd.name = "upload-bulk" /\ attempts # <<>>) =>
                  Len(stdout) = Len(attempts) + 1
        ELSE stdout = <<>>

\* a failed single attempt of upload in json mode: the process has ended with
\* nothing on stdout
FailedSingleAttemptNoRecord ==
    /\ Exited
    /\ cmd.name = "upload"
    /\ repeat = 1
    /\ output_format = "json"
    /\ SomeAttemptFailed
    /\ stdout = <<>>

-----------------------------------------------------------------------------
(* Round trip: upload a local file to a node that stores what it receives   *)
(* under a hash and serves it unchanged, then download that hash.           *)

\* the hash the node gives a content (a plain name)
NodeHash(content) == <<"h">> \o StrOfInt(Len(content))

\* the body of the node's answer to an upload
UploadedBody(h) ==
    [k |-> "obj", len |-> 20, detail |-> "none", status |-> "success", hash |-> h]

\* the node's answer to POST /upload of a file part: 201 for new content
NodeUploadEnv(content) ==
    Env([t |-> "response", status |-> 201, body |-> UploadedBody(NodeHash(content))],
        TRUE, <<>>, NoFault, NoFault)

\* the node's answer to GET /download/{h}: the stored content streamed in
\* order, or 404
NodeDownloadEnv(h) ==
    IF h \in DOMAIN node
    THEN Env([t |-> "response", status |-> 200, body |-> NoBody], TRUE, node[h],
             NoFault, NoFault)
    ELSE Env([t |-> "response", status |-> 404,
              body |-> [k |-> "obj", len |-> 20, detail |-> "msg", status |-> "none"]],
             TRUE, <<>>, NoFault, NoFault)

\* what the node stores after the requests reqs
NodeStore(reqs) ==
    IF reqs # <<>> /\ reqs[1].method = "POST"
    THEN [h \in (DOMAIN node) \cup {NodeHash(reqs[1].files)} |->
             IF h = NodeHash(reqs[1].files) THEN reqs[1].files ELSE node[h]]
    ELSE node

RoundTripStep(r, c, e, next) ==
    /\ call' = c
    /\ env' = e
    /\ outcome' = r.outcome
    /\ helper' = r.helper
    /\ sent' = r.sent
    /\ fs_before' = fs
    /\ fs' = r.fs
    /\ node' = NodeStore(r.sent)
    /\ pc' = next
    /\ UNCHANGED <<base_url, timeout, cmd, repeat, i, results_data,
                   overall_success, output_format, attempts, stdout, stderr,
                   exit_code, bulkVars, local_file>>

\* client.upload(path)
RoundTripUpload ==
    /\ pc = "rt_start"
    /\ LET e == NodeUploadEnv(local_file.content)
           r == upload(base_url, timeout, local_file, fs, e)
       IN  RoundTripStep(r, Call("upload", <<>>, NoName, NoLimit, NoQuery, local_file),
                         e, IF r.outcome.kind = "return" THEN "rt_uploaded"
                            ELSE "rt_failed")

\* client.download(result['hash'], dir)
RoundTripDownload ==
    /\ pc = "rt_uploaded"
    /\ LET h == outcome.value.hash
           e == NodeDownloadEnv(h)
           r == download(base_url, timeout, h, NoName, fs, e)
       IN  RoundTripStep(r, Call("download", h, NoName, NoLimit, NoQuery, NoFile),
                         e, "rt_done")

InitRoundTrip ==
    /\ base_url \in { RStrip(b, "/") : b \in BaseUrls }
    /\ timeout \in Timeouts
    /\ local_file \in { File("file", m, TRUE, Body(n)) :
                           m \in {"known", "unknown"}, n \in 0..MaxChunks }
    /\ node = NoNode
    /\ fs \in {NoDir}
              \cup { [dir_exists |-> TRUE, dir_writable |-> TRUE, files |-> f] :
                       f \in {NoFiles,
                               Put(NoFiles, NodeHash(local_file.content), PreFile(TRUE)),
                               Put(NoFiles, Name_n, PreFile(TRUE))} }
    /\ fs_before = fs
    /\ call = Call("none", <<>>, NoName, NoLimit, NoQuery, NoFile)
    /\ env = Env([t |-> "none", status |-> 0, body |-> NoBody], TRUE, <<>>,
                 NoFault, NoFault)
    /\ outcome = NotStarted
    /\ helper = NotStarted
    /\ sent = <<>>
    /\ pc = "rt_start"
    /\ CliInert

NextRoundTrip ==
    \/ RoundTripUpload
    \/ RoundTripDownload

SpecRoundTrip == InitRoundTrip /\ [][NextRoundTrip]_vars

\* C18: against such a node, for every local file, upload succeeds, and the
\* download of the returned hash succeeds and leaves at the returned path a
\* file whose content is the original, chunk for chunk in order.
C18_RoundTrip ==
    /\ pc # "rt_failed"
    /\ pc = "rt_done" =>
          /\ outcome.kind = "return"
          /\ outcome.path = full_save_path(call.file_hash)
          /\ Exists(fs, call.file_hash)
          /\ fs.files[call.file_hash].content = local_file.content

\* the same for files whose MIME type is resolved from the name
C18_RoundTripResolvedMime ==
    local_file.mime = "known" =>
        /\ pc # "rt_failed"
        /\ pc = "rt_uploaded" => node[outcome.value.hash] = local_file.content
        /\ pc = "rt_done" =>
              /\ outcome.kind = "return"
              /\ outcome.path = full_save_path(call.file_hash)
              /\ Exists(fs, call.file_hash)
              /\ fs.files[call.file_hash].content = local_file.content

\* a round trip of a file of MaxChunks chunks over an older file of that name
RoundTripDone ==
    /\ pc = "rt_done"
    /\ Len(local_file.content) = MaxChunks
    /\ Exists(fs_before, call.file_hash)
    /\ fs.files[call.file_hash].content = local_file.content

====
